---- MODULE Spec2Model ----
(***************************************************************************)
(* Model of scripts/create_issue_mcp.py: one invocation reads its          *)
(* configuration from the environment, searches the target repository for  *)
(* a work item mentioning the ticket key, and creates one when the search  *)
(* finds none.  Text is a sequence of chunks (single characters for the    *)
(* inputs the code transforms, whole literals for the fixed text).         *)
(***************************************************************************)
EXTENDS Integers, Sequences, FiniteSets

VARIABLES
    environ,        \* per run: the process environment read at lines 16-24
    repo,           \* the target repository's work items mentioning the key
    pc,             \* per run: position in main
    exitStatus,     \* per run: process exit status, -1 while running
    out,            \* per run: the lines printed to standard output
    calls,          \* per run: the requests issued and the answers received
    searchResp,     \* per run: the answer to requests.get
    createResp,     \* per run: the answer to requests.post
    existing_issue, \* per run: main's existing_issue (<<>> is None)
    issue,          \* per run: main's issue
    repoAtSearch    \* per run: Len(repo) when the search was answered

vars == <<environ, repo, pc, exitStatus, out, calls,
          searchResp, createResp, existing_issue, issue, repoAtSearch>>

\* ---------------------------------------------------------------- bounds
MaxDescLen == 2
MaxPrioLen == 1

\* ------------------------------------------------------------ text helpers
RECURSIVE SeqsUpTo(_, _)
SeqsUpTo(S, n) ==
    IF n = 0 THEN {<<>>}
    ELSE LET shorter == SeqsUpTo(S, n - 1)
         IN  shorter \cup {Append(s, c) : s \in shorter, c \in S}

Whitespace == {" ", "\t", "\n"}

RECURSIVE lstrip(_)
lstrip(s) ==
    IF s # <<>> /\ Head(s) \in Whitespace THEN lstrip(Tail(s)) ELSE s

RECURSIVE rstrip(_)
rstrip(s) ==
    IF s # <<>> /\ s[Len(s)] \in Whitespace
    THEN rstrip(SubSeq(s, 1, Len(s) - 1))
    ELSE s

\* str.strip(): leading and trailing whitespace removed
strip(s) == rstrip(lstrip(s))

lower_char(c) ==
    CASE c = "H" -> "h"
      [] c = "M" -> "m"
      [] OTHER   -> c

\* str.lower(): every cased character replaced by its lower-case form
lower(s) == [i \in 1..Len(s) |-> lower_char(s[i])]

RECURSIVE join(_, _)
\* sep.join(parts) for parts that are all strings
join(sep, parts) ==
    IF parts = <<>> THEN <<>>
    ELSE IF Len(parts) = 1 THEN parts[1]
    ELSE parts[1] \o sep \o join(sep, Tail(parts))

\* ------------------------------------------------------------ environment
Unset == [set |-> FALSE, val |-> <<>>]
SetTo(v) == [set |-> TRUE, val |-> v]

\* an optional string: None, or a string
None == [none |-> TRUE, val |-> <<>>]
Str(v) == [none |-> FALSE, val |-> v]

\* os.environ.get(name): None when the variable is unset
environ_get(raw) == IF raw.set THEN Str(raw.val) ELSE None

\* os.environ.get(name, default)
environ_get_default(raw, default) == IF raw.set THEN raw.val ELSE default

GITHUB_TOKEN(r) == environ_get(environ[r].GITHUB_TOKEN)
TARGET_REPO_OWNER(r) ==
    environ_get_default(environ[r].TARGET_REPO_OWNER, <<"Karthi-Knackforge">>)
TARGET_REPO_NAME(r) ==
    environ_get_default(environ[r].TARGET_REPO_NAME, <<"cms-project">>)
JIRA_ISSUE_KEY(r) == environ_get(environ[r].JIRA_ISSUE_KEY)
JIRA_SUMMARY(r) == environ_get_default(environ[r].JIRA_SUMMARY, <<>>)
JIRA_DESCRIPTION(r) == environ_get_default(environ[r].JIRA_DESCRIPTION, <<>>)
JIRA_ISSUE_URL(r) == environ_get_default(environ[r].JIRA_ISSUE_URL, <<>>)
JIRA_PRIORITY(r) ==
    environ_get_default(environ[r].JIRA_PRIORITY, <<"M", "e", "d", "i", "u", "m">>)
JIRA_ISSUE_TYPE(r) == environ_get_default(environ[r].JIRA_ISSUE_TYPE, <<"Task">>)

GITHUB_COPILOT_USERNAME == <<"github">>

\* Python truth value of an optional string and of a string
TruthyOpt(v) == ~v.none /\ v.val # <<>>
Truthy(s) == s # <<>>

\* the text an f-string renders for an optional string
Fmt(v) == IF v.none THEN <<"None">> ELSE v.val

\* --------------------------------------------------------- output lines
Line(text, args) == [text |-> text, args |-> args]

\* ------------------------------------------------ check_required_env_vars
required_vars(r) ==
    << [var |-> <<"GITHUB_TOKEN">>,      value |-> TruthyOpt(GITHUB_TOKEN(r))],
       [var |-> <<"TARGET_REPO_OWNER">>, value |-> Truthy(TARGET_REPO_OWNER(r))],
       [var |-> <<"TARGET_REPO_NAME">>,  value |-> Truthy(TARGET_REPO_NAME(r))],
       [var |-> <<"JIRA_ISSUE_KEY">>,    value |-> TruthyOpt(JIRA_ISSUE_KEY(r))] >>

vars_of(items) == [i \in 1..Len(items) |-> items[i].var]

missing_first_only(r) ==
    LET all == vars_of(SelectSeq(required_vars(r), LAMBDA v : ~v.value))
    IN  IF all = <<>> THEN <<>> ELSE <<all[1]>>

missing_never(r) == <<>>

\* missing = [var for var, value in required_vars.items() if not value]
missing(r) == vars_of(SelectSeq(required_vars(r), LAMBDA v : ~v.value))

\* ------------------------------------ create_copilot_optimized_issue_body
ChecklistItems ==
    << "- [ ] Implementation matches the requirements described above",
       "- [ ] Code follows project conventions and best practices",
       "- [ ] Tests are added/updated to cover changes",
       "- [ ] Documentation is updated if needed" >>

\* description = JIRA_DESCRIPTION.strip() if JIRA_DESCRIPTION else "No ..."
description(r) ==
    IF Truthy(JIRA_DESCRIPTION(r))
    THEN strip(JIRA_DESCRIPTION(r))
    ELSE <<"No description provided.">>

create_copilot_optimized_issue_body(r) ==
    <<"## Requirements", "\n\n">>
    \o description(r)
    \o <<"\n\n", "## Acceptance Criteria", "\n\n">>
    \o <<ChecklistItems[1], "\n", ChecklistItems[2], "\n",
         ChecklistItems[3], "\n", ChecklistItems[4], "\n">>
    \o <<"\n", "## Jira Reference", "\n\n", "**Jira Issue:** [">>
    \o Fmt(JIRA_ISSUE_KEY(r)) \o <<"](">> \o JIRA_ISSUE_URL(r) \o <<")", "\n">>
    \o <<"**Priority:** ">> \o JIRA_PRIORITY(r) \o <<"\n">>
    \o <<"**Type:** ">> \o JIRA_ISSUE_TYPE(r) \o <<"\n">>
    \o <<"\n", "---", "\n\n",
         "*This issue was automatically created from Jira and assigned to GitHub Copilot coding agent for implementation.*",
         "\n">>

\* -------------------------------------------------------- the repository
\* The work items of the target repository that mention the ticket key, as
\* the hosting platform holds them; item i carries number 16 + i.
Item(n) == [number |-> n, html_url |-> <<"html_url", n>>]
NextItem == Item(17 + Len(repo))

\* The answers requests.get can give to the search request: a transport
\* failure, a non-2xx status, or a 2xx body reporting the repository's
\* matches (per_page = 1), with the total_count key or the items possibly
\* missing from the body.
SearchFailures ==
    { [kind |-> k, has_total |-> FALSE, total_count |-> 0, items |-> <<>>] :
        k \in {"transport_error", "http_error"} }

SearchBodies ==
    { [kind |-> "ok", has_total |-> t, total_count |-> Len(repo), items |-> its] :
        t \in BOOLEAN,
        its \in {<<>>} \cup (IF repo = <<>> THEN {} ELSE {<<repo[1]>>}) }

NoResponse == [kind |-> "none", has_total |-> FALSE, total_count |-> 0, items |-> <<>>]

\* ------------------------------------------------- search_existing_issue
\* data.get("total_count", 0)
total_count_of(resp) == IF resp.has_total THEN resp.total_count ELSE 0

search_raises_on_failure(r, resp) ==
    IF resp.kind # "ok"
    THEN [raised |-> TRUE, value |-> <<>>, out |-> <<>>]
    ELSE IF total_count_of(resp) > 0
    THEN IF resp.items = <<>>
         THEN [raised |-> TRUE, value |-> <<>>, out |-> <<>>]
         ELSE [raised |-> FALSE, value |-> <<resp.items[1]>>, out |-> <<>>]
    ELSE [raised |-> FALSE, value |-> <<>>, out |-> <<>>]

search_ignores_count(r, resp) ==
    IF resp.kind # "ok"
    THEN [raised |-> FALSE, value |-> <<>>,
          out |-> <<Line("Warning: Failed to search for existing issues: ", <<resp.kind>>)>>]
    ELSE [raised |-> FALSE, value |-> <<>>, out |-> <<>>]

\* The result of search_existing_issue for a given answer: the value it
\* returns (<<>> is None, <<item>> the first match), whether an exception
\* other than RequestException leaves it, and what it prints.
search_existing_issue(r, resp) ==
    IF resp.kind # "ok"
    THEN \* except requests.exceptions.RequestException
         [raised |-> FALSE, value |-> <<>>,
          out |-> <<Line("Warning: Failed to search for existing issues: ", <<resp.kind>>)>>]
    ELSE IF total_count_of(resp) > 0
    THEN IF resp.items = <<>>
         THEN \* data["items"][0]: KeyError or IndexError
              [raised |-> TRUE, value |-> <<>>, out |-> <<>>]
         ELSE [raised |-> FALSE, value |-> <<resp.items[1]>>, out |-> <<>>]
    ELSE [raised |-> FALSE, value |-> <<>>, out |-> <<>>]

\* ---------------------------------------------------- create_github_issue
title(r) == <<"[">> \o Fmt(JIRA_ISSUE_KEY(r)) \o <<"] ">> \o JIRA_SUMMARY(r)

labels_unlowered(r) ==
    << <<"jira-sync">>, <<"copilot-agent">>, <<"priority-">> \o JIRA_PRIORITY(r) >>

labels(r) ==
    << <<"jira-sync">>, <<"copilot-agent">>,
       <<"priority-">> \o lower(JIRA_PRIORITY(r)) >>

issue_data(r) ==
    [ title     |-> title(r),
      body      |-> create_copilot_optimized_issue_body(r),
      labels    |-> labels(r),
      assignees |-> <<GITHUB_COPILOT_USERNAME>> ]

\* The answers requests.post can give: a transport failure (no response), a
\* non-2xx status (a response with text), or 201 with the created item,
\* whose labels the platform returns as names or as label objects.
CreateFailures ==
    { [kind |-> k, item |-> Item(0), labels_form |-> "names", labels |-> <<>>] :
        k \in {"transport_error", "http_error"} }

CreateSuccesses(sent) ==
    { [kind |-> "created", item |-> NextItem, labels_form |-> f, labels |-> ls] :
        f \in {"names", "objects"}, ls \in {sent, <<>>} }

NoIssue == [kind |-> "none", item |-> Item(0), labels_form |-> "names", labels |-> <<>>]

create_continues_on_failure(r, resp) ==
    [exits |-> FALSE, value |-> resp, out |-> <<>>]

\* The result of create_github_issue for a given answer: it returns the
\* decoded item, or prints the error (and the response text when the
\* exception carries a response) and calls sys.exit(1).
create_github_issue(r, resp) ==
    IF resp.kind = "created"
    THEN [exits |-> FALSE, value |-> resp, out |-> <<>>]
    ELSE [exits |-> TRUE, value |-> resp,
          out |-> <<Line("Error creating GitHub issue: ", <<resp.kind>>)>>
                  \o (IF resp.kind = "http_error"
                      THEN <<Line("Response: ", <<"response.text">>)>>
                      ELSE <<>>)]

\* ------------------------------------------------------------------ main
Runs == DOMAIN pc

existing_never(v) == FALSE

\* if existing_issue:
existing(v) == v # <<>>

\* ', '.join(issue.get('labels', [])) raises TypeError on a non-string element
join_labels_raises(resp) == resp.labels_form = "objects" /\ resp.labels # <<>>

handler_exits_zero == 1 - 1

\* except Exception at the top level: traceback, sys.exit(1)
uncaught_exit_status == 1

\* sys.exit(1) in check_required_env_vars and create_github_issue
sys_exit_status == 1

\* main returning normally ends the process with status 0
return_exit_status == 0

FatalError == <<Line("Fatal error: ", <<>>), Line("traceback", <<>>)>>

Request(method, data) == [dir |-> "request", method |-> method, data |-> data]
Response(method, data) == [dir |-> "response", method |-> method, data |-> data]

Emit(r, lines) == out' = [out EXCEPT ![r] = @ \o lines]
Goto(r, label) == pc' = [pc EXCEPT ![r] = label]
Exit(r, status) == exitStatus' = [exitStatus EXCEPT ![r] = status]
Net(r, event) == calls' = [calls EXCEPT ![r] = Append(@, event)]

\* main, lines 165-167
Start(r) ==
    /\ pc[r] = "Start"
    /\ Emit(r, << Line("Starting Jira to GitHub Issue workflow...", <<>>),
                   Line("Target Repository: ",
                        TARGET_REPO_OWNER(r) \o <<"/">> \o TARGET_REPO_NAME(r)),
                   Line("Jira Issue: ", Fmt(JIRA_ISSUE_KEY(r))) >>)
    /\ Goto(r, "ValidatingConfig")
    /\ UNCHANGED <<environ, repo, exitStatus, calls, searchResp, createResp,
                   existing_issue, issue, repoAtSearch>>

\* check_required_env_vars, then search_existing_issue up to requests.get
ValidateConfig(r) ==
    /\ pc[r] = "ValidatingConfig"
    /\ IF missing(r) # <<>>
       THEN /\ Emit(r, <<Line("Error: Missing required environment variables: ",
                               join(<<", ">>, missing(r)))>>)
            /\ Goto(r, "FatalMissingConfig")
            /\ Exit(r, sys_exit_status)
            /\ UNCHANGED calls
       ELSE /\ Emit(r, <<Line("Searching for existing issues with key: ",
                               Fmt(JIRA_ISSUE_KEY(r)))>>)
            /\ Net(r, Request("GET",
                   [ url      |-> "/search/issues",
                     q        |-> <<"repo:">> \o TARGET_REPO_OWNER(r) \o <<"/">>
                                  \o TARGET_REPO_NAME(r) \o <<" ">>
                                  \o Fmt(JIRA_ISSUE_KEY(r))
                                  \o <<" in:title,body type:issue">>,
                     per_page |-> 1 ]))
            /\ Goto(r, "CheckingDuplicate")
            /\ UNCHANGED exitStatus
    /\ UNCHANGED <<environ, repo, searchResp, createResp, existing_issue, issue,
                   repoAtSearch>>

\* search_existing_issue from the answer of requests.get on, and main's
\* test of its result
AfterSearch(r, resp) ==
    LET res == search_existing_issue(r, resp)
    IN  /\ searchResp' = [searchResp EXCEPT ![r] = resp]
        /\ repoAtSearch' = [repoAtSearch EXCEPT ![r] = Len(repo)]
        /\ Net(r, Response("GET", resp))
        /\ existing_issue' = [existing_issue EXCEPT ![r] = res.value]
        /\ IF res.raised
           THEN /\ Emit(r, res.out \o FatalError)
                /\ Goto(r, "FatalUncaught")
                /\ Exit(r, uncaught_exit_status)
           ELSE /\ Emit(r, res.out)
                /\ Goto(r, IF existing(res.value)
                           THEN "ReportingExisting" ELSE "FormattingBody")
                /\ UNCHANGED exitStatus
        /\ UNCHANGED <<environ, repo, createResp, issue>>

\* the search request fails: transport error or non-2xx status
SearchFails(r) ==
    /\ pc[r] = "CheckingDuplicate"
    /\ \E resp \in SearchFailures : AfterSearch(r, resp)

\* the search request is answered with a 2xx body
SearchReturns(r) ==
    /\ pc[r] = "CheckingDuplicate"
    /\ \E resp \in SearchBodies : AfterSearch(r, resp)

\* main, lines 175-181
ReportExisting(r) ==
    /\ pc[r] = "ReportingExisting"
    /\ Emit(r, << Line("Issue already exists: #", <<existing_issue[r][1].number>>),
                   Line("URL: ", existing_issue[r][1].html_url),
                   Line("Skipping creation - no duplicate will be created", <<>>) >>)
    /\ Goto(r, "Done")
    /\ Exit(r, return_exit_status)
    /\ UNCHANGED <<environ, repo, calls, searchResp, createResp, existing_issue,
                   issue, repoAtSearch>>

\* main line 184 and create_github_issue up to requests.post
FormatAndPost(r) ==
    /\ pc[r] = "FormattingBody"
    /\ Emit(r, << Line("No existing issue found, creating new issue...", <<>>),
                   Line("Creating issue in ",
                        TARGET_REPO_OWNER(r) \o <<"/">> \o TARGET_REPO_NAME(r)),
                   Line("   Title: ", title(r)) >>)
    /\ Net(r, Request("POST", issue_data(r)))
    /\ Goto(r, "CreatingIssue")
    /\ UNCHANGED <<environ, repo, exitStatus, searchResp, createResp,
                   existing_issue, issue, repoAtSearch>>

\* create_github_issue from the answer of requests.post on
AfterCreate(r, resp) ==
    LET res == create_github_issue(r, resp)
    IN  /\ createResp' = [createResp EXCEPT ![r] = resp]
        /\ Net(r, Response("POST", resp))
        /\ Emit(r, res.out)
        /\ IF res.exits
           THEN /\ Goto(r, "FatalCreateFailed")
                /\ Exit(r, sys_exit_status)
                /\ UNCHANGED issue
           ELSE /\ Goto(r, "ReportingCreated")
                /\ issue' = [issue EXCEPT ![r] = res.value]
                /\ UNCHANGED exitStatus
        /\ UNCHANGED <<environ, searchResp, existing_issue, repoAtSearch>>

\* the creation request fails: transport error or non-2xx status
CreateFails(r) ==
    /\ pc[r] = "CreatingIssue"
    /\ \E resp \in CreateFailures : AfterCreate(r, resp)
    /\ UNCHANGED repo

\* the platform creates the item and answers 201
CreateSucceeds(r) ==
    /\ pc[r] = "CreatingIssue"
    /\ \E resp \in CreateSuccesses(calls[r][Len(calls[r])].data.labels) :
          AfterCreate(r, resp)
    /\ repo' = Append(repo, NextItem)

\* main, lines 187-196
ReportCreated(r) ==
    /\ pc[r] = "ReportingCreated"
    /\ LET head == << Line("Successfully created issue #", <<issue[r].item.number>>),
                      Line("URL: ", issue[r].item.html_url),
                      Line("Assigned to: @", GITHUB_COPILOT_USERNAME) >>
       IN  IF join_labels_raises(issue[r])
           THEN /\ Emit(r, head \o FatalError)
                /\ Goto(r, "FatalUncaught")
                /\ Exit(r, uncaught_exit_status)
           ELSE /\ Emit(r, head \o
                         << Line("Labels: ", join(<<", ">>, issue[r].labels)),
                            Line("::notice title=Issue Created::",
                                 <<"Created issue #", issue[r].item.number, " in ">>
                                 \o TARGET_REPO_OWNER(r) \o <<"/">>
                                 \o TARGET_REPO_NAME(r)) >>)
                /\ Goto(r, "Done")
                /\ Exit(r, return_exit_status)
    /\ UNCHANGED <<environ, repo, calls, searchResp, createResp, existing_issue,
                   issue, repoAtSearch>>

Next ==
    \/ \E r \in Runs : Start(r)
    \/ \E r \in Runs : ValidateConfig(r)
    \/ \E r \in Runs : SearchFails(r)
    \/ \E r \in Runs : SearchReturns(r)
    \/ \E r \in Runs : ReportExisting(r)
    \/ \E r \in Runs : FormatAndPost(r)
    \/ \E r \in Runs : CreateFails(r)
    \/ \E r \in Runs : CreateSucceeds(r)
    \/ \E r \in Runs : ReportCreated(r)

\* ------------------------------------------------------------- the inputs
RawText(S, n) == {Unset} \cup {SetTo(v) : v \in SeqsUpTo(S, n)}
RawRequired(v) == {Unset, SetTo(<<>>), SetTo(v)}

Environments ==
    [ GITHUB_TOKEN      : RawRequired(<<"token">>),
      TARGET_REPO_OWNER : RawRequired(<<"acme">>),
      TARGET_REPO_NAME  : RawRequired(<<"web">>),
      JIRA_ISSUE_KEY    : RawRequired(<<"PROJ-42">>),
      JIRA_SUMMARY      : {Unset, SetTo(<<"Fix login bug">>)},
      JIRA_DESCRIPTION  : RawText({" ", "d"}, MaxDescLen),
      JIRA_ISSUE_URL    : {Unset},
      JIRA_PRIORITY     : RawText({"H", "i"}, MaxPrioLen),
      JIRA_ISSUE_TYPE   : {Unset} ]

InitRuns(R) ==
    /\ pc = [r \in R |-> "Start"]
    /\ exitStatus = [r \in R |-> -1]
    /\ out = [r \in R |-> <<>>]
    /\ calls = [r \in R |-> <<>>]
    /\ searchResp = [r \in R |-> NoResponse]
    /\ createResp = [r \in R |-> NoIssue]
    /\ existing_issue = [r \in R |-> <<>>]
    /\ issue = [r \in R |-> NoIssue]
    /\ repoAtSearch = [r \in R |-> -1]

\* one invocation, any environment, a repository with or without a work
\* item for the key
Init ==
    /\ InitRuns({1})
    /\ \E e \in Environments : environ = [r \in {1} |-> e]
    /\ repo \in {<<>>, <<Item(17)>>}

Spec == Init /\ [][Next]_vars

\* every step of a run is taken once it is enabled: the process is scheduled
\* and each network call returns or errors
FairSpec == Spec /\ WF_vars(Next)

\* concurrent invocations for the same ticket key and repository, each with
\* a complete configuration, and no work item for the key yet
RaceRuns == {1, 2}

InitRace ==
    /\ InitRuns(RaceRuns)
    /\ \E e \in Environments :
          /\ e.GITHUB_TOKEN.val # <<>> /\ e.JIRA_ISSUE_KEY.val # <<>>
          /\ e.TARGET_REPO_OWNER.set /\ e.TARGET_REPO_OWNER.val # <<>>
          /\ e.TARGET_REPO_NAME.set /\ e.TARGET_REPO_NAME.val # <<>>
          /\ e.JIRA_SUMMARY.set
          /\ e.JIRA_DESCRIPTION = SetTo(<<"d">>)
          /\ e.JIRA_PRIORITY = Unset
          /\ environ = [r \in RaceRuns |-> e]
    /\ repo = <<>>

SpecRace == InitRace /\ [][Next]_vars

\* ------------------------------------------------------------ properties
Terminated(r) == exitStatus[r] # -1
Fatal(r) == pc[r] \in {"FatalMissingConfig", "FatalUncaught", "FatalCreateFailed"}
Printed(r, text) == \E i \in DOMAIN out[r] : out[r][i].text = text
HasLine(r, line) == \E i \in DOMAIN out[r] : out[r][i] = line
Requests(r, method) ==
    {i \in DOMAIN calls[r] : calls[r][i].dir = "request" /\ calls[r][i].method = method}
Responses(r, method) ==
    {i \in DOMAIN calls[r] : calls[r][i].dir = "response" /\ calls[r][i].method = method}
SearchFailed(r) == searchResp[r].kind \in {"transport_error", "http_error"}
CreateFailed(r) == createResp[r].kind \in {"transport_error", "http_error"}
ReportsPositiveCount(r) ==
    /\ searchResp[r].kind = "ok"
    /\ searchResp[r].has_total
    /\ searchResp[r].total_count > 0
NoticeText == "::notice title=Issue Created::"
SkipText == "Skipping creation - no duplicate will be created"

\* C1 as stated: whenever the search response reports a total count greater
\* than zero, the run issues no creation request and, once it has ended, has
\* reported the existing item's number and URL and exited with status 0.
C1_AsStated ==
    \A r \in Runs :
        ReportsPositiveCount(r) =>
            /\ Requests(r, "POST") = {}
            /\ Terminated(r) =>
                  /\ exitStatus[r] = 0
                  /\ HasLine(r, Line("Issue already exists: #", <<repo[1].number>>))
                  /\ HasLine(r, Line("URL: ", repo[1].html_url))

\* C1 amended: whenever the search response reports a total count greater
\* than zero, the run issues no creation request; when the response also
\* carries a first item, the run reports that item's number and URL and ends
\* with exit status 0.
C1_PositiveCountSkipsCreation ==
    \A r \in Runs :
        ReportsPositiveCount(r) =>
            /\ Requests(r, "POST") = {}
            /\ searchResp[r].items # <<>> =>
                  /\ pc[r] \in {"ReportingExisting", "Done"}
                  /\ Terminated(r) =>
                        /\ exitStatus[r] = 0
                        /\ HasLine(r, Line("Issue already exists: #",
                                           <<searchResp[r].items[1].number>>))
                        /\ HasLine(r, Line("URL: ", searchResp[r].items[1].html_url))
                        /\ Printed(r, SkipText)

C1_Witness ==
    \E r \in Runs :
        /\ ReportsPositiveCount(r) /\ searchResp[r].items # <<>>
        /\ pc[r] = "Done" /\ exitStatus[r] = 0

\* The mandatory values absent or empty in the environment, and those that
\* are still empty once the defaults of the target owner and name apply.
AbsentOrEmpty(r) ==
    {n \in {"GITHUB_TOKEN", "TARGET_REPO_OWNER", "TARGET_REPO_NAME", "JIRA_ISSUE_KEY"} :
        environ[r][n].val = <<>>}
EmptyAfterDefaults(r) ==
    {n \in {"GITHUB_TOKEN", "JIRA_ISSUE_KEY"} : environ[r][n].val = <<>>}
    \cup {n \in {"TARGET_REPO_OWNER", "TARGET_REPO_NAME"} :
            environ[r][n].set /\ environ[r][n].val = <<>>}
DiagnosticText == "Error: Missing required environment variables: "
Diagnosed(r) ==
    {n \in {"GITHUB_TOKEN", "TARGET_REPO_OWNER", "TARGET_REPO_NAME", "JIRA_ISSUE_KEY"} :
        \E i \in DOMAIN out[r] :
            /\ out[r][i].text = DiagnosticText
            /\ \E j \in DOMAIN out[r][i].args : out[r][i].args[j] = n}

\* C2 as stated: a run that has ended has exit status 1 if and only if some
\* mandatory value was absent or empty, and then the diagnostic names every
\* absent or empty value.
C2_AsStated ==
    \A r \in Runs :
        Terminated(r) =>
            /\ exitStatus[r] = 1 <=> AbsentOrEmpty(r) # {}
            /\ AbsentOrEmpty(r) # {} => AbsentOrEmpty(r) \subseteq Diagnosed(r)

\* C2 amended: the run ends at configuration validation, with exit status 1
\* and before any network request, if and only if the credential or ticket
\* key is absent or empty or the target owner or name is set to the empty
\* string, and the diagnostic names exactly those values; an absent target
\* owner or name takes its default and is not missing.
C2_MissingExactlyDiagnosed ==
    \A r \in Runs :
        pc[r] \notin {"Start", "ValidatingConfig"} =>
            /\ pc[r] = "FatalMissingConfig" <=> EmptyAfterDefaults(r) # {}
            /\ pc[r] = "FatalMissingConfig" =>
                  /\ exitStatus[r] = 1
                  /\ calls[r] = <<>>
                  /\ Diagnosed(r) = EmptyAfterDefaults(r)
            /\ pc[r] # "FatalMissingConfig" => ~Printed(r, DiagnosticText)

C2_Witness ==
    \E r \in Runs :
        /\ pc[r] = "FatalMissingConfig"
        /\ EmptyAfterDefaults(r) = {"GITHUB_TOKEN", "TARGET_REPO_NAME", "JIRA_ISSUE_KEY"}
        /\ ~environ[r].TARGET_REPO_OWNER.set

\* C3: after a successful creation request the run never ends in a fatal
\* state: it ends in Done with exit status 0, having emitted the
\* '::notice title=Issue Created::' line.
C3_CreatedEndsDone ==
    \A r \in Runs :
        createResp[r].kind = "created" =>
            /\ ~Fatal(r)
            /\ pc[r] \in {"ReportingCreated", "Done"}
            /\ Terminated(r) => exitStatus[r] = 0 /\ Printed(r, NoticeText)

\* C4: a failed search request is not fatal: the checker returns absence,
\* a warning is printed, and the run goes on to issue the creation request;
\* it never ends without having attempted the creation.
C4_SearchFailureProceeds ==
    \A r \in Runs :
        SearchFailed(r) =>
            /\ existing_issue[r] = <<>>
            /\ Printed(r, "Warning: Failed to search for existing issues: ")
            /\ pc[r] = "FormattingBody" \/ Requests(r, "POST") # {}
            /\ Terminated(r) => Requests(r, "POST") # {}

C4_Witness ==
    \E r \in Runs :
        SearchFailed(r) /\ createResp[r].kind = "created" /\ pc[r] = "Done"

\* C5: a failed creation request is fatal: the error is printed, the response
\* text exactly when a response is available, the exit status is 1, exactly
\* one creation request was issued, and neither the success summary nor the
\* annotation line is printed.
C5_CreateFailureFatal ==
    \A r \in Runs :
        CreateFailed(r) =>
            /\ pc[r] = "FatalCreateFailed"
            /\ exitStatus[r] = 1
            /\ Printed(r, "Error creating GitHub issue: ")
            /\ Printed(r, "Response: ") <=> createResp[r].kind = "http_error"
            /\ Cardinality(Requests(r, "POST")) = 1
            /\ ~Printed(r, "Successfully created issue #")
            /\ ~Printed(r, NoticeText)

C5_Witness ==
    \E r \in Runs :
        createResp[r].kind = "http_error" /\ pc[r] = "FatalCreateFailed"

\* C6: a run issues at most one creation request, only after its search
\* request has returned, and issues no network request unless all four
\* mandatory values are non-empty.
C6_SearchThenAtMostOneCreate ==
    \A r \in Runs :
        /\ Cardinality(Requests(r, "POST")) <= 1
        /\ Cardinality(Requests(r, "GET")) <= 1
        /\ \A i \in Requests(r, "POST") :
              \E j \in Responses(r, "GET") : j < i
        /\ calls[r] # <<>> =>
              /\ EmptyAfterDefaults(r) = {}
              /\ pc[r] \notin {"Start", "ValidatingConfig", "FatalMissingConfig"}

C6_Witness ==
    \E r \in Runs : Requests(r, "POST") # {} /\ Responses(r, "POST") # {}

RequirementsSection(body) ==
    LET k == CHOOSE i \in DOMAIN body : body[i] = "## Acceptance Criteria"
    IN  SubSeq(body, 3, k - 2)
IsBlank(s) == \A i \in DOMAIN s : s[i] \in Whitespace
Occurs(body, chunk) == \E i \in DOMAIN body : body[i] = chunk

\* C8: the Requirements section of the body sent is 'No description
\* provided.' when the description is empty or only whitespace, and the
\* trimmed description otherwise; the four checklist items are always there.
C8_RequirementsSection ==
    \A r \in Runs : \A i \in Requests(r, "POST") :
        LET body == calls[r][i].data.body
            desc == environ[r].JIRA_DESCRIPTION.val
        IN  /\ RequirementsSection(body) =
                  IF IsBlank(desc) THEN <<"No description provided.">> ELSE strip(desc)
            /\ \A k \in 1..4 : Occurs(body, ChecklistItems[k])

LowerCase == [c \in {"H", "M"} |-> IF c = "H" THEN "h" ELSE "m"]
Lowered(s) == [i \in DOMAIN s |-> IF s[i] \in DOMAIN LowerCase THEN LowerCase[s[i]] ELSE s[i]]
Priority(r) ==
    IF environ[r].JIRA_PRIORITY.set
    THEN environ[r].JIRA_PRIORITY.val
    ELSE <<"M", "e", "d", "i", "u", "m">>

\* C9: the creation request carries exactly three distinct labels, 'jira-sync',
\* 'copilot-agent' and 'priority-' followed by the lower-cased priority, the
\* single assignee 'github', and the title '[key] summary'.
C9_CreationPayload ==
    \A r \in Runs : \A i \in Requests(r, "POST") :
        LET d == calls[r][i].data
        IN  /\ Len(d.labels) = 3
            /\ Cardinality({d.labels[k] : k \in 1..3}) = 3
            /\ d.labels[1] = <<"jira-sync">>
            /\ d.labels[2] = <<"copilot-agent">>
            /\ d.labels[3] = <<"priority-">> \o Lowered(Priority(r))
            /\ d.assignees = << <<"github">> >>
            /\ d.title = <<"[">> \o environ[r].JIRA_ISSUE_KEY.val \o <<"] ">>
                         \o environ[r].JIRA_SUMMARY.val

C9_Witness ==
    \E r \in Runs : \E i \in Requests(r, "POST") :
        /\ environ[r].JIRA_PRIORITY = SetTo(<<"H">>)
        /\ calls[r][i].data.labels[3] = <<"priority-", "h">>

EndedByReporting(r) ==
    /\ out[r] # <<>>
    /\ out[r][Len(out[r])].text \in {SkipText, NoticeText}

\* the exit status of a run that has ended, by the way it ended
C10_StatusRule ==
    Terminated(1) =>
        /\ exitStatus[1] \in {0, 1}
        /\ pc[1] \in {"Done", "FatalMissingConfig", "FatalUncaught", "FatalCreateFailed"}
        /\ exitStatus[1] = 0 <=> EndedByReporting(1)
        /\ exitStatus[1] = 0 <=> pc[1] = "Done"

\* C10: when every step that can be taken eventually is, the run ends with
\* exit status 0 or 1, and the status is 0 exactly when the run ended by
\* reporting an existing or a newly created item; missing configuration, a
\* failed creation and any uncaught exception give status 1.
C10_TerminatesWithStatus == <>Terminated(1) /\ []C10_StatusRule

C10_Witness ==
    /\ pc[1] = "FatalUncaught"
    /\ createResp[1].kind = "created"
    /\ exitStatus[1] = 1

====
